---- MODULE Spec2Model ----
(***************************************************************************)
(* Build orchestration engine of the AI app builder:                       *)
(*   services/geminiService.ts  GenerationSupervisor, runBuildOnServer,    *)
(*                              callWithRetry                              *)
(*   services/cloudService.ts   triggerBuild, stopBuild, saveProject       *)
(*   components/ProjectBuilder.tsx  handleSendMessage, handleStop,         *)
(*                              handleStopGeneration                       *)
(*                                                                         *)
(* JavaScript runs every continuation to completion: one action of this    *)
(* module is the code between two awaits of one build job (or one UI       *)
(* handler).  job[j].pc names the await job j is suspended at.             *)
(***************************************************************************)
EXTENDS Integers, Sequences, FiniteSets, TLC

\* ------------------------------------------------------------------ bounds
\* number of builds triggered for the project
MaxBuilds == 2
\* longest plan the planner oracle answers with
MaxPlanLen == 2

Jobs == 1..MaxBuilds

\* ------------------------------------------------------------------ strings
\* A string is a sequence of one-character strings.
LowerChars == <<"a","b","c","d","e","f","g","h","i","j","k","l","m",
                "n","o","p","q","r","s","t","u","v","w","x","y","z">>
UpperChars == <<"A","B","C","D","E","F","G","H","I","J","K","L","M",
                "N","O","P","Q","R","S","T","U","V","W","X","Y","Z">>

toUpperChar(c) ==
    IF \E k \in 1..Len(LowerChars) : LowerChars[k] = c
    THEN UpperChars[CHOOSE k \in 1..Len(LowerChars) : LowerChars[k] = c]
    ELSE c

toUpperCase(s) == [k \in 1..Len(s) |-> toUpperChar(s[k])]

includes(s, pat) ==
    \E k \in 0..(Len(s) - Len(pat)) : SubSeq(s, k + 1, k + Len(pat)) = pat

startsWith(s, pat) ==
    Len(s) >= Len(pat) /\ SubSeq(s, 1, Len(pat)) = pat

\* Step descriptions the planner oracle may answer with (ids into StepText).
StepText ==
    <<  <<"S","t","y","l","e"," ","h","e","a","d","e","r">>,
        <<"s","q","l",":"," ","a","d","d"," ","i","n","d","e","x">>,
        <<"C","r","e","a","t","e"," ","a"," ","u","s","e","r","s"," ","t","a","b","l","e">>,
        <<"A","n","a","l","y","z","e"," ","r","e","q","u","e","s","t">>,
        <<"I","m","p","l","e","m","e","n","t"," ","c","h","a","n","g","e","s">> >>

\* the steps an oracle answer is drawn from; 4 and 5 are the fallback plan's
OracleSteps == {1, 2, 3}
FallbackPlan == <<4, 5>>

\* geminiService.ts:196-203, the per-step test of the plan gate
stepNeedsDb ==
    [s \in 1..Len(StepText) |->
        LET u == toUpperCase(StepText[s]) IN
            \/ includes(u, <<"S","Q","L">>)
            \/ includes(u, <<"D","A","T","A","B","A","S","E">>)
            \/ includes(u, <<"T","A","B","L","E">>)
            \/ startsWith(u, <<"C","R","E","A","T","E"," ">>)
            \/ includes(u, <<"S","C","H","E","M","A">>)]

\* geminiService.ts:246, the routing test of executeLoop
stepIsSql ==
    [s \in 1..Len(StepText) |->
        \/ includes(toUpperCase(StepText[s]), <<"S","Q","L">>)
        \/ startsWith(toUpperCase(StepText[s]),
                      <<"C","R","E","A","T","E"," ","T","A","B","L","E">>)]

needsDb(p) == \E k \in 1..Len(p) : stepNeedsDb[p[k]]

RECURSIVE SeqsUpTo(_, _)
SeqsUpTo(S, n) ==
    IF n = 0 THEN {<<>>}
    ELSE LET shorter == SeqsUpTo(S, n - 1) IN
         shorter \cup {Append(q, x) : q \in {r \in shorter : Len(r) = n - 1}, x \in S}

Plans == SeqsUpTo(OracleSteps, MaxPlanLen)

\* ------------------------------------------------------------------ data
\* A text produced by the oracle: <<what, plan index, attempt>>.
NoText == <<"none", 0, 0>>
OrigText == <<"orig", 0, 0>>

\* A string built by the program: a fixed wording around an oracle text.
Str(kind, text) == [kind |-> kind, text |-> text]

\* GeneratedCode (types.ts); oid is the identity of the JavaScript object, so
\* that a write through one reference shows through every other reference.
OrigCode == [html |-> OrigText, javascript |-> OrigText, css |-> OrigText,
             explanation |-> OrigText, oid |-> 0]

Fields(c) == <<c.html, c.javascript, c.css, c.explanation>>

\* BuildState | null (types.ts:504-509)
NullBuildState == [attached |-> FALSE, plan |-> <<>>, currentStep |-> 0,
                   lastCompletedStep |-> -1, error |-> "null"]

Message(role, content) == [role |-> role, content |-> content]

NoError == Str("", NoText)

DB_CONNECT_MESSAGE == Str("This project requires a backend database.", NoText)

BackendConfigs ==
    { [cloud |-> "none", manual |-> FALSE], [cloud |-> "CREATING", manual |-> FALSE],
      [cloud |-> "ACTIVE", manual |-> FALSE], [cloud |-> "none", manual |-> TRUE] }

Project(cfg) ==
    [status |-> "idle", buildState |-> NullBuildState, code |-> OrigCode,
     messages |-> <<>>, cloud |-> cfg.cloud, manual |-> cfg.manual]

\* ------------------------------------------------------------------ state
VARIABLES
    store,        \* the project row of the durable store (cloudService.saveProject)
    ui,           \* the React state `project` of ProjectBuilder
    controllers,  \* buildAbortControllers.get(project.id): a job, or 0 for none
    aborted,      \* aborted[j]: controller.signal.aborted of build job j
    job           \* job[j]: runBuildOnServer's closure and its GenerationSupervisor

vars == <<store, ui, controllers, aborted, job>>

\* job[j].pc           the await the job is suspended at
\* job[j].projectRef   projectRef of runBuildOnServer
\* job[j].currentCode, .plan     fields of GenerationSupervisor
\* job[j].i            i of executeLoop
\* job[j].retries      retries of executeCodeStep
\* job[j].envRetries, .callKind  the callWithRetry in flight and who called it
\* job[j].invocations  how often the callWithRetry in flight has invoked fn
\* job[j].lastError    the error of its last failed invocation
\* job[j].thrown       the error it threw to its caller
\* job[j].log          callbacks fired (and SQL executed), in order
\* job[j].content      content of handleSendMessage: a prompt of Prompts, 0 for none
\* job[j].isArchitect, .aiSaysDbRequired, .response   what handleUserIntent returned
\* job[j].timers       the setTimeout callbacks the resume effect has scheduled for
\*                     the pending prompt of message j: the project each captured
\* history, read by the properties only:
\* job[j].before       the artifact when the step under way was entered
\* job[j].floor        messages.length when the build was triggered
\* job[j].prior        the BuildState the project had when the build was triggered
\* job[j].classifier   what the classifier call of analyzeRequirements did
\* job[j].planAnswer   what the planner's answer parsed to
IdleJob ==
    [pc |-> "idle", projectRef |-> Project([cloud |-> "none", manual |-> FALSE]),
     currentCode |-> OrigCode, plan |-> <<>>, i |-> 0, retries |-> 0,
     envRetries |-> 0, callKind |-> "none", invocations |-> 0,
     lastError |-> NoError, thrown |-> NoError, log |-> <<>>,
     content |-> 0, isArchitect |-> "undefined", aiSaysDbRequired |-> "undefined",
     response |-> "undefined",
     before |-> OrigCode, floor |-> 0, prior |-> NullBuildState, classifier |-> "none",
     planAnswer |-> "none", timers |-> <<>>]

Init ==
    /\ \E cfg \in BackendConfigs : store = Project(cfg) /\ ui = store
    /\ controllers = 0
    /\ aborted = [j \in Jobs |-> FALSE]
    /\ job = [j \in Jobs |-> IdleJob]

\* ------------------------------------------------------------------ callbacks
\* runBuildOnServer.serverCallbacks: each maps projectRef to its new value; the
\* action that fires it also publishes it (updateState) and saves it (save).

onPlanUpdate(p, pl) ==
    [p EXCEPT !.buildState = [attached |-> TRUE, plan |-> pl, currentStep |-> 0,
                              lastCompletedStep |-> -1, error |-> "null"],
              !.status = "generating"]

\* a slip: the index of the step is not recorded
onStepStartKeepsCurrentStep(p, stepIndex) == [p EXCEPT !.buildState.error = "null"]

onStepStart(p, stepIndex) ==
    [p EXCEPT !.buildState.currentStep = stepIndex, !.buildState.error = "null"]

\* a slip: the index of the next step is recorded as completed
onStepCompleteOffByOne(p, stepIndex) ==
    [p EXCEPT !.buildState.lastCompletedStep = stepIndex + 1]

onStepComplete(p, stepIndex) ==
    [p EXCEPT !.buildState.lastCompletedStep = stepIndex]

onChunkComplete(p, code, explanation) ==
    [p EXCEPT !.code = code,
              !.messages = Append(@, Message("assistant", explanation))]

\* a slip: the BuildState is detached when the build has succeeded
onSuccessClearsBuildState(p, finalCode, finalExplanation) ==
    [p EXCEPT !.code = finalCode,
              !.messages = Append(@, Message("assistant", finalExplanation)),
              !.status = "idle",
              !.buildState = NullBuildState]

onSuccess(p, finalCode, finalExplanation) ==
    LET q == [p EXCEPT !.code = finalCode,
                       !.messages = Append(@, Message("assistant", finalExplanation)),
                       !.status = "idle"]
    IN  IF q.buildState.attached
        THEN [q EXCEPT !.buildState.currentStep = Len(q.buildState.plan),
                       !.buildState.lastCompletedStep = Len(q.buildState.plan) - 1,
                       !.buildState.error = "null"]
        ELSE q

onError(p, error) == [p EXCEPT !.buildState.error = error]

onFinalError(p, error) ==
    LET isSystemTrigger == error = DB_CONNECT_MESSAGE
        content == IF isSystemTrigger THEN error
                   ELSE Str("Error: " \o error.kind, error.text)
    IN  [p EXCEPT !.messages = Append(@, Message("assistant", content)),
                  !.status = "idle"]

\* ------------------------------------------------------------------ supervisor
\* The pieces of GenerationSupervisor between two awaits, as maps from the
\* job's state s to its state at the next await.  ab is abortSignal.aborted.

Event(name, arg) == <<name, arg>>

CallbackNames == {"onPlanUpdate", "onStepStart", "onStepComplete", "onChunkComplete",
                  "onSuccess", "onError", "onFinalError"}

\* a callback that ran: projectRef is changed, and the job awaits save()
Fire(s, p, event, at) ==
    [s EXCEPT !.projectRef = p, !.log = Append(@, event), !.pc = at]

\* runBuildOnServer returns
Exit(s) == [s EXCEPT !.pc = "done"]

Cancelled == Str("Build cancelled by user", NoText)
DB_REQUIRED_BY_PLAN == Str("DB_REQUIRED_BY_PLAN", NoText)
\* MaxRetriesError (geminiService.ts:116-121)
MaxRetriesError(originalError) ==
    [kind |-> "API call failed after multiple attempts.", text |-> NoText,
     originalError |-> originalError]
ParseError == Str("Unexpected token in JSON", NoText)

\* geminiService.ts:205-206
hasDb(p) == p.cloud = "ACTIVE" \/ p.manual

\* the catch of start (geminiService.ts:222-236)
catchStart(s, error) ==
    IF error = Cancelled THEN Exit(s)
    ELSE IF error = DB_REQUIRED_BY_PLAN
    THEN Fire(s, onFinalError(s.projectRef, DB_CONNECT_MESSAGE),
              Event("onFinalError", 1), "onFinalError")
    ELSE Fire(s, onFinalError(s.projectRef, error),
              Event("onFinalError", 0), "onFinalError")

\* what fn() does: it resolves, it rejects, or it is still pending after timeoutMs
FnOutcomes == {"resolves", "rejects", "pending"}

Rejected == Str("fetch failed", NoText)
TimedOut == Str("Operation timed out after ms", NoText)

\* withTimeout (geminiService.ts:130-137): the race of fn() and the timer
withTimeout(outcome) ==
    CASE outcome = "resolves" -> [settled |-> "resolved", error |-> NoError]
      [] outcome = "rejects" -> [settled |-> "rejected", error |-> Rejected]
      [] outcome = "pending" -> [settled |-> "rejected", error |-> TimedOut]

\* the retries argument of each call of callWithRetry: the default, or 1
\* (geminiService.ts:139, 283, 309, 355, 410, 588, 609, 618)
CallRetries == [plan |-> 2, sql |-> 2, code |-> 1, repair |-> 1,
                intent |-> 2, requirements |-> 2, chat |-> 2]

\* callWithRetry invokes fn for the first time (geminiService.ts:139-141)
callWithRetry(s, kind) ==
    [s EXCEPT !.pc = "call", !.callKind = kind, !.envRetries = CallRetries[kind],
              !.invocations = 1, !.lastError = NoError, !.thrown = NoError]

\* start up to the first await (geminiService.ts:188-191, 257-283)
start(s, ab) ==
    IF ab THEN catchStart(s, Cancelled)
    ELSE callWithRetry(s, "plan")

\* the head of the for loop of executeLoop (geminiService.ts:240-242) and,
\* when the loop is over, the rest of start (geminiService.ts:221)
executeLoop(s, ab) ==
    IF s.i < Len(s.plan)
    THEN IF ab THEN catchStart(s, Cancelled)
         ELSE IF s.projectRef.buildState.attached
         THEN Fire(s, onStepStart(s.projectRef, s.i), Event("onStepStart", s.i),
                   "onStepStart")
         ELSE [s EXCEPT !.pc = "onStepStart"]
    ELSE Fire(s, onSuccess(s.projectRef, s.currentCode,
                           Str("Project built successfully!", NoText)),
              Event("onSuccess", 0), "onSuccess")

\* a slip: the plan is published without the plan gate
plannedWithoutGate(s, pl, ab) ==
    LET t == [s EXCEPT !.plan = pl, !.i = 0] IN
    IF ab THEN catchStart(t, Cancelled)
    ELSE IF Len(pl) = 0
    THEN Fire(t, onSuccess(s.projectRef, s.currentCode,
                           Str("no code changes were needed", NoText)),
              Event("onSuccess", 0), "onSuccess")
    ELSE Fire(t, onPlanUpdate(s.projectRef, pl), Event("onPlanUpdate", Len(pl)),
              "onPlanUpdate")

\* start after generatePlan returned the plan pl (geminiService.ts:192-220)
planned(s, pl, ab) ==
    LET t == [s EXCEPT !.plan = pl, !.i = 0] IN
    IF ab THEN catchStart(t, Cancelled)
    ELSE IF needsDb(pl) /\ ~hasDb(s.projectRef)
    THEN catchStart(t, DB_REQUIRED_BY_PLAN)
    ELSE IF Len(pl) = 0
    THEN Fire(t, onSuccess(s.projectRef, s.currentCode,
                           Str("no code changes were needed", NoText)),
              Event("onSuccess", 0), "onSuccess")
    ELSE Fire(t, onPlanUpdate(s.projectRef, pl), Event("onPlanUpdate", Len(pl)),
              "onPlanUpdate")

\* the head of the while loop of executeCodeStep (geminiService.ts:338-355)
executeCodeStep(s, ab) ==
    IF ab THEN catchStart(s, Cancelled)
    ELSE callWithRetry(s, "code")

\* executeSqlStep up to its oracle call (geminiService.ts:300-309)
executeSqlStep(s, ab) ==
    IF ab THEN catchStart(s, Cancelled)
    ELSE IF s.projectRef.cloud # "ACTIVE" THEN catchStart(s, DB_REQUIRED_BY_PLAN)
    ELSE callWithRetry(s, "sql")

\* a slip: every step is run as a code step
routeAllToCode(s, ab) ==
    executeCodeStep([s EXCEPT !.before = s.currentCode, !.retries = 3], ab)

\* executeLoop after onStepStart: the routing (geminiService.ts:243-250)
route(s, ab) ==
    LET t == [s EXCEPT !.before = s.currentCode] IN
    IF stepIsSql[s.plan[s.i + 1]]
    THEN executeSqlStep(t, ab)
    ELSE executeCodeStep([t EXCEPT !.retries = 3], ab)

\* a slip: the step returns without onStepComplete
stepReturnedWithoutComplete(s, ab) == executeLoop([s EXCEPT !.i = @ + 1], ab)

\* executeLoop after the step returned (geminiService.ts:252-253)
stepReturned(s, ab) ==
    IF ab THEN catchStart(s, Cancelled)
    ELSE IF s.projectRef.buildState.attached
    THEN Fire(s, onStepComplete(s.projectRef, s.i), Event("onStepComplete", s.i),
              "onStepComplete")
    ELSE [s EXCEPT !.pc = "onStepComplete"]

\* a slip: the catch of executeSqlStep rethrows every error
catchSqlRethrows(s, error) == catchStart(s, error)

\* the catch of executeSqlStep (geminiService.ts:330-333)
catchSql(s, error) ==
    IF error = Cancelled THEN catchStart(s, Cancelled)
    ELSE IF s.projectRef.buildState.attached
    THEN Fire(s, onError(s.projectRef, "Database migration failed"),
              Event("onError", 0), "onErrorSql")
    ELSE [s EXCEPT !.pc = "onErrorSql"]

\* the catch of executeCodeStep up to onError (geminiService.ts:377-380)
catchCode(s, error) ==
    IF error = Cancelled THEN catchStart(s, Cancelled)
    ELSE LET t == [s EXCEPT !.retries = @ - 1] IN
         IF s.projectRef.buildState.attached
         THEN Fire(t, onError(s.projectRef, "Step failed"),
                   Event("onError", t.retries), "onErrorCode")
         ELSE [t EXCEPT !.pc = "onErrorCode"]

StepFailed(s) == Str("Failed to execute step", <<"step", s.plan[s.i + 1], s.i>>)

\* repairCode up to its oracle call (geminiService.ts:390-410)
repairCode(s, ab) ==
    IF ab THEN catchStart(s, Cancelled)
    ELSE callWithRetry(s, "repair")

\* a slip: the repair is made after the last attempt too
afterOnErrorAlwaysRepairs(s, ab) == repairCode(s, ab)

\* the catch of executeCodeStep after onError (geminiService.ts:381-385)
afterOnError(s, ab) ==
    IF s.retries > 0 THEN repairCode(s, ab)
    ELSE catchStart(s, StepFailed(s))

\* ------------------------------------------------------------------ oracle
\* What the oracle and the backend answer; the program parses it.

\* JSON.parse(cleanJsonOutput(response.text)) of the planner's answer
PlannerOutputs ==
    {[kind |-> "array", steps |-> p] : p \in Plans}
        \cup {[kind |-> "object", steps |-> <<>>], [kind |-> "garbage", steps |-> <<>>]}

\* a slip: the planner's answer is returned as it was parsed
generatePlanWithoutFallback(out) == out

\* the try/catch at the end of generatePlan (geminiService.ts:293-297)
generatePlan(out) ==
    IF out.kind = "garbage" THEN [kind |-> "array", steps |-> FallbackPlan] ELSE out

CodeOutputs == {"full", "script", "garbage"}
SqlOutputs == {"sql", "nosql", "garbage"}
RepairOutputs == {"javascript", "nojavascript", "garbage"}

TypeError == Str("this.plan.some is not a function", NoText)
SqlError == Str("executeSql failed", NoText)

\* the attempt of executeCodeStep under way: 1, 2, 3
Attempt(s) == 4 - s.retries

NewOid(j, s) == (j * 100) + ((s.i + 1) * 10) + Attempt(s)

\* a slip: the spread the other way round, { ...result, ...this.currentCode }
mergeReversed(code, out, tag, oid) == [code EXCEPT !.oid = oid]

\* { ...this.currentCode, ...result } (geminiService.ts:374)
merge(code, out, tag, oid) ==
    IF out = "full"
    THEN [html |-> tag, javascript |-> tag, css |-> tag, explanation |-> tag, oid |-> oid]
    ELSE [code EXCEPT !.javascript = tag, !.explanation = tag, !.oid = oid]

\* ------------------------------------------------------------------ actions
IsCallback(e) == e[1] \in CallbackNames

Last(q) == q[Len(q)]

\* a slip: the callback publishes projectRef and does not save it
ApplyWithoutSave(j, s) ==
    /\ job' = [job EXCEPT ![j] = s]
    /\ IF Len(s.log) > Len(job[j].log) /\ IsCallback(Last(s.log))
       THEN ui' = s.projectRef /\ UNCHANGED store
       ELSE UNCHANGED <<store, ui>>
    /\ controllers' = IF s.pc = "done" /\ controllers = j THEN 0 ELSE controllers
    /\ UNCHANGED aborted

\* job j moves to s; a callback it fired has published and saved projectRef;
\* when runBuildOnServer has returned, the finally of triggerBuild runs
\* (cloudService.ts:514-518)
Apply(j, s) ==
    /\ job' = [job EXCEPT ![j] = s]
    /\ IF Len(s.log) > Len(job[j].log) /\ IsCallback(Last(s.log))
       THEN store' = s.projectRef /\ ui' = s.projectRef
       ELSE UNCHANGED <<store, ui>>
    /\ controllers' = IF s.pc = "done" /\ controllers = j THEN 0 ELSE controllers
    /\ UNCHANGED aborted

UserMessage == Message("user", Str("prompt", NoText))

\* a slip: the BuildState of the project is left as it was
updatedProjectKeepsBuildState(project) == [project EXCEPT !.status = "generating"]

\* the project triggerBuild saves and hands to the build (cloudService.ts:489-494)
updatedProject(project) ==
    [project EXCEPT !.status = "generating",
                    !.buildState = [attached |-> TRUE, plan |-> <<>>, currentStep |-> 0,
                                    lastCompletedStep |-> -1, error |-> "null"]]

\* handleSendMessage on the architect path, then triggerBuild up to its await
\* of saveProject (ProjectBuilder.tsx:402-432, 513-532; cloudService.ts:457-497)
handleSendMessage(j) ==
    /\ job[j].pc = "idle"
    /\ \A k \in Jobs : k < j => job[k].pc # "idle"
    /\ ui.status # "generating"
    /\ LET projectToBuild == [ui EXCEPT !.messages = Append(@, UserMessage),
                                        !.status = "generating"]
           updated == updatedProject(projectToBuild)
       IN  /\ ui' = updated
           /\ store' = updated
           /\ job' = [job EXCEPT ![j] = [IdleJob EXCEPT !.pc = "saveProject",
                                                        !.projectRef = updated,
                                                        !.currentCode = updated.code,
                                                        !.before = updated.code,
                                                        !.floor = Len(updated.messages),
                                                        !.prior = ui.buildState]]
    /\ UNCHANGED <<controllers, aborted>>

\* a slip: the controller is removed from the registry and not aborted
stopBuildWithoutAbort(ab) == ab

\* stopBuild (cloudService.ts:449-455)
stopBuild(ab) == IF controllers # 0 THEN [ab EXCEPT ![controllers] = TRUE] ELSE ab

\* triggerBuild after saveProject (cloudService.ts:499-505)
triggerBuild(j) ==
    /\ job[j].pc = "saveProject"
    /\ aborted' = stopBuild(aborted)
    /\ controllers' = j
    /\ job' = [job EXCEPT ![j].pc = "queued"]
    /\ UNCHANGED <<store, ui>>

\* the setTimeout callback of triggerBuild: runBuildOnServer, start
\* (cloudService.ts:505-507; geminiService.ts:570-571)
runBuildOnServer(j) ==
    /\ job[j].pc = "queued"
    /\ Apply(j, start(job[j], aborted[j]))

\* callWithRetry: fn failed or timed out, retries are left (geminiService.ts:142-145)
invocationFails(j, failing, outcomes) ==
    /\ job[j].pc = "call"
    /\ job[j].callKind \in failing
    /\ job[j].envRetries > 0
    /\ \E o \in outcomes :
          /\ withTimeout(o).settled = "rejected"
          /\ Apply(j, [job[j] EXCEPT !.pc = "delay", !.lastError = withTimeout(o).error,
                                     !.thrown = NoError])

\* a slip: the retry is made with the same number of retries left
retryInvocationKeepsRetries(j) ==
    /\ job[j].pc = "delay"
    /\ Apply(j, [job[j] EXCEPT !.pc = "call", !.invocations = @ + 1])

\* callWithRetry: the delay is over, fn is invoked again (geminiService.ts:146)
retryInvocation(j) ==
    /\ job[j].pc = "delay"
    /\ Apply(j, [job[j] EXCEPT !.pc = "call", !.envRetries = @ - 1,
                               !.invocations = @ + 1])

\* callWithRetry: fn failed and no retries are left; MaxRetriesError reaches
\* the caller (geminiService.ts:148)
callThrows(j, failing, outcomes) ==
    /\ job[j].pc = "call"
    /\ job[j].callKind \in failing
    /\ job[j].envRetries = 0
    /\ \E o \in outcomes :
          /\ withTimeout(o).settled = "rejected"
          /\ LET error == withTimeout(o).error
                 thrown == MaxRetriesError(error)
                 s == job[j]
                 t == CASE s.callKind = "plan" -> catchStart(s, thrown)
                        [] s.callKind = "sql" -> catchSql(s, thrown)
                        [] s.callKind = "code" -> catchCode(s, thrown)
                        [] s.callKind = "repair" -> executeCodeStep(s, aborted[j])
             IN  Apply(j, [t EXCEPT !.lastError = error, !.thrown = thrown])

\* callWithRetry returns the result of fn (geminiService.ts:141)
returned(s) == [s EXCEPT !.lastError = NoError, !.thrown = NoError]

\* generatePlan's call returned (geminiService.ts:283-297, 192-220)
planReturns(j, outputs) ==
    /\ job[j].pc = "call" /\ job[j].callKind = "plan"
    /\ \E out \in outputs :
          LET v == generatePlan(out)
              s == [returned(job[j]) EXCEPT !.planAnswer = out.kind]
          IN  Apply(j, IF v.kind = "array" THEN planned(s, v.steps, aborted[j])
                       ELSE IF aborted[j] THEN catchStart(s, Cancelled)
                       ELSE catchStart(s, TypeError))

\* save of onPlanUpdate done: executeLoop(0) (geminiService.ts:220, 239-242)
afterOnPlanUpdate(j) ==
    /\ job[j].pc = "onPlanUpdate"
    /\ Apply(j, executeLoop([job[j] EXCEPT !.i = 0], aborted[j]))

\* save of onStepStart done (geminiService.ts:243-250)
afterOnStepStart(j) ==
    /\ job[j].pc = "onStepStart"
    /\ Apply(j, route(job[j], aborted[j]))

\* save of onStepComplete done: i++ (geminiService.ts:240)
afterOnStepComplete(j) ==
    /\ job[j].pc = "onStepComplete"
    /\ Apply(j, executeLoop([job[j] EXCEPT !.i = @ + 1], aborted[j]))

\* executeCodeStep's call returned (geminiService.ts:370-376)
codeReturns(j, outputs) ==
    /\ job[j].pc = "call" /\ job[j].callKind = "code"
    /\ \E out \in outputs :
          LET s == returned(job[j])
              tag == <<"gen", s.i, Attempt(s)>>
              code == merge(s.currentCode, out, tag, NewOid(j, s))
          IN  Apply(j, IF aborted[j] THEN catchStart(s, Cancelled)
                       ELSE IF out = "garbage" THEN catchCode(s, ParseError)
                       ELSE Fire([s EXCEPT !.currentCode = code],
                                 onChunkComplete(s.projectRef, code, Str("", tag)),
                                 Event("onChunkComplete", s.i), "onChunkCode"))

\* save of the step's onChunkComplete or onError done: executeSqlStep or
\* executeCodeStep returns to executeLoop (geminiService.ts:376, 328, 333, 252)
afterStep(j) ==
    /\ job[j].pc \in {"onChunkCode", "onChunkSql", "onErrorSql"}
    /\ Apply(j, stepReturned(job[j], aborted[j]))

\* save of executeCodeStep's onError done (geminiService.ts:381-385)
afterOnErrorCode(j) ==
    /\ job[j].pc = "onErrorCode"
    /\ Apply(j, afterOnError(job[j], aborted[j]))

\* a slip: the explanation of the fix is written into the artifact too
assignJavascriptAndExplanation(code, oid, js) ==
    IF code.oid = oid THEN [code EXCEPT !.javascript = js, !.explanation = js] ELSE code

\* this.currentCode.javascript = result.javascript (geminiService.ts:430): a
\* write into the object, seen through every reference to it
assignJavascript(code, oid, js) ==
    IF code.oid = oid THEN [code EXCEPT !.javascript = js] ELSE code

\* repairCode's call returned (geminiService.ts:425-436)
repairReturns(j, outputs) ==
    /\ job[j].pc = "call" /\ job[j].callKind = "repair"
    /\ \E out \in outputs :
          LET s == returned(job[j])
              tag == <<"fix", s.i, Attempt(s) - 1>>
              oid == s.currentCode.oid
              code == assignJavascript(s.currentCode, oid, tag)
          IN  IF aborted[j] THEN Apply(j, catchStart(s, Cancelled))
              ELSE IF out # "javascript" THEN Apply(j, executeCodeStep(s, aborted[j]))
              ELSE LET t == Fire([s EXCEPT !.currentCode = code],
                                 onChunkComplete(s.projectRef, code, Str("(Auto-fix: )", tag)),
                                 Event("onChunkComplete", s.i), "onChunkRepair")
                   IN  /\ job' = [k \in Jobs |->
                                    IF k = j THEN t
                                    ELSE IF job[k].pc \in {"idle", "done"} THEN job[k]
                                    ELSE [job[k] EXCEPT
                                            !.currentCode = assignJavascript(@, oid, tag),
                                            !.projectRef.code = assignJavascript(@, oid, tag)]]
                       /\ store' = t.projectRef
                       /\ ui' = t.projectRef
                       /\ UNCHANGED <<controllers, aborted>>

\* save of repairCode's onChunkComplete done: back to the while loop
\* (geminiService.ts:432, 338)
afterOnChunkRepair(j) ==
    /\ job[j].pc = "onChunkRepair"
    /\ Apply(j, executeCodeStep(job[j], aborted[j]))

\* executeSqlStep's call returned (geminiService.ts:323-325)
sqlReturns(j, outputs) ==
    /\ job[j].pc = "call" /\ job[j].callKind = "sql"
    /\ \E out \in outputs :
          LET s == returned(job[j]) IN
          Apply(j, IF out = "garbage" THEN catchSql(s, ParseError)
                   ELSE IF out = "nosql" THEN stepReturned(s, aborted[j])
                   ELSE [s EXCEPT !.pc = "executeSql",
                                  !.log = Append(@, Event("executeSql", s.i))])

\* rafieiCloudService.executeSql returned (geminiService.ts:326-327)
executeSqlReturns(j) ==
    /\ job[j].pc = "executeSql"
    /\ LET s == job[j] IN
       Apply(j, IF aborted[j] THEN catchSql(s, Cancelled)
                ELSE Fire(s, onChunkComplete(s.projectRef, s.currentCode,
                                             Str("[DATABASE] ", <<"sql", s.i, 0>>)),
                          Event("onChunkComplete", s.i), "onChunkSql"))

\* rafieiCloudService.executeSql threw (geminiService.ts:330-333)
executeSqlThrows(j) ==
    /\ job[j].pc = "executeSql"
    /\ Apply(j, catchSql(job[j], SqlError))

\* save of onSuccess or onFinalError done: start and runBuildOnServer return
\* (geminiService.ts:217, 221, 232, 235, 571)
afterTerminal(j) ==
    /\ job[j].pc \in {"onSuccess", "onFinalError"}
    /\ Apply(j, Exit(job[j]))

\* handleStopGeneration (ProjectBuilder.tsx:275-304)
handleStopGeneration(project, isAutoRecovery) ==
    [project EXCEPT
        !.status = "idle",
        !.messages = IF isAutoRecovery
                     THEN Append(@, Message("assistant",
                                    Str("Error: The build process timed out.", NoText)))
                     ELSE @,
        !.buildState.error = IF isAutoRecovery /\ project.buildState.attached
                             THEN "Timeout: No activity detected" ELSE @]

\* handleStop while building (ProjectBuilder.tsx:269-272)
handleStop ==
    /\ ui.status = "generating"
    /\ aborted' = stopBuild(aborted)
    /\ controllers' = 0
    /\ ui' = handleStopGeneration(ui, FALSE)
    /\ store' = ui'
    /\ UNCHANGED job

\* the watchdog effect: no update for 130 s (ProjectBuilder.tsx:188-195)
watchdog ==
    /\ ui.status = "generating"
    /\ ui' = handleStopGeneration(ui, TRUE)
    /\ store' = ui'
    /\ UNCHANGED <<controllers, aborted, job>>

\* handleDisconnectCloud, confirmed by the user (ProjectBuilder.tsx:392-400)
handleDisconnectCloud ==
    /\ ui' = [ui EXCEPT !.cloud = "none"]
    /\ store' = ui'
    /\ UNCHANGED <<controllers, aborted, job>>

\* ------------------------------------------------------------------ intent router
\* handleSendMessage from the user's message to triggerBuild, with the calls
\* of handleUserIntent (ProjectBuilder.tsx:402-532; geminiService.ts:575-627).

\* Messages the user may send, as their words in lower case.
Prompts ==
    <<  <<"hello", "there">>,
        <<"add", "a", "title">>,
        <<"save", "my", "notes">>,
        <<"static", "landing", "page">>,
        <<"static", "login", "page">> >>

\* a regular expression \b(w1|w2|...)\b: some run of words of the text is
\* one of the alternatives
test(alternatives, text) == \E w \in alternatives : includes(text, w)

\* ProjectBuilder.tsx:447
heuristicArchitectWords ==
    { <<w>> : w \in {"create", "build", "generate", "make", "develop", "code", "app",
                     "website", "page", "dashboard", "fix", "change", "update", "add",
                     "remove", "delete", "insert", "style", "design", "layout", "form"} }

\* ProjectBuilder.tsx:450
dbRegex ==
    { <<w>> : w \in {"database", "db", "store", "saving", "saved", "save", "persist",
                     "persistent", "record", "auth", "login", "signin", "signup", "user",
                     "profile", "admin", "dashboard", "cms", "crm", "shop", "ecommerce",
                     "cart", "inventory", "blog", "post", "comment", "member", "setting",
                     "preference", "analytic", "history", "transaction", "payment",
                     "order", "product", "service", "booking", "reservation", "todo",
                     "task", "list", "collection", "table", "row", "column", "sql",
                     "data", "form", "submit", "capture", "collect", "input", "review",
                     "message", "chat"} }

\* ProjectBuilder.tsx:459
staticRegex ==
    { <<"static">>, <<"mock">>, <<"landing", "page">>, <<"brochure">>, <<"portfolio">>,
      <<"frontend", "only">>, <<"ui", "only">>, <<"no", "database">>, <<"no", "db">>,
      <<"html", "only">>, <<"css", "only">> }

\* a || b of JavaScript on "true", "false", "undefined"
Or(a, b) == IF a = "true" THEN a ELSE b

Bool(b) == IF b THEN "true" ELSE "false"

\* ProjectBuilder.tsx:443-473: the decisions of handleSendMessage after
\* handleUserIntent, as [isArchitect, requiresDatabase]
decide(s) ==
    LET text == Prompts[s.content]
        heuristicArchitect == test(heuristicArchitectWords, text)
        heuristicDbRequired == test(dbRegex, text)
        requiresDatabase0 == Or(s.aiSaysDbRequired, Bool(heuristicDbRequired))
        touched == s.isArchitect = "true" \/ heuristicArchitect \/ heuristicDbRequired
        isExplicitlyStatic == test(staticRegex, text)
        requiresDatabase ==
            IF touched /\ isExplicitlyStatic /\ ~heuristicDbRequired
            THEN "false" ELSE requiresDatabase0
        isArchitect ==
            IF touched /\ (requiresDatabase = "true" \/ heuristicArchitect)
            THEN "true" ELSE s.isArchitect
    IN  [isArchitect |-> isArchitect, requiresDatabase |-> requiresDatabase]

\* String.prototype.trim, on a sequence of characters
RECURSIVE trim(_)
trim(s) ==
    IF s = <<>> THEN s
    ELSE IF Head(s) = " " THEN trim(Tail(s))
    ELSE IF s[Len(s)] = " " THEN trim(SubSeq(s, 1, Len(s) - 1))
    ELSE s

\* what the router oracle may answer (response.text)
IntentAnswers ==
    { <<"A","R","C","H","I","T","E","C","T">>,
      <<" ","a","r","c","h","i","t","e","c","t"," ">>,
      <<"C","H","A","T">> }

\* detectUserIntent (geminiService.ts:617-627)
detectUserIntent(text) ==
    Bool(toUpperCase(trim(text)) = <<"A","R","C","H","I","T","E","C","T">>)

\* what the classifier oracle may answer: the JSON with the field true or
\* false, JSON without the field, text that is no JSON, no text
RequirementsOutputs == {"true", "false", "missing", "garbage", "empty"}

\* analyzeRequirements after its call returned (geminiService.ts:598-599)
analyzeRequirements(out) ==
    LET text == IF out = "empty" THEN "false" ELSE out IN
    IF text = "garbage" THEN "false"
    ELSE Or(IF text = "missing" THEN "undefined" ELSE text, "false")

\* what the chat oracle may answer (response.text)
ChatOutputs == {"reply", "empty"}

chatQuicklyWithoutFallback(out) == IF out = "empty" THEN "" ELSE out

\* chatQuickly after its call returned (geminiService.ts:614)
chatQuickly(out) == IF out = "empty" THEN "I'm listening..." ELSE out

connectMsg == Message("assistant", Str("This application requires a database.", NoText))

\* handleSendMessage up to its await of detectUserIntent's call
\* (ProjectBuilder.tsx:402-443; geminiService.ts:575-576, 617-618)
sendMessage(j, prompts) ==
    /\ job[j].pc = "idle"
    /\ \A k \in Jobs : k < j => job[k].pc # "idle"
    /\ ui.status # "generating"
    /\ \E c \in prompts :
          LET updated == [ui EXCEPT !.messages = Append(@, UserMessage)] IN
          /\ ui' = updated
          /\ job' = [job EXCEPT ![j] =
                        callWithRetry([IdleJob EXCEPT !.projectRef = updated,
                                                      !.currentCode = updated.code,
                                                      !.before = updated.code,
                                                      !.floor = Len(updated.messages),
                                                      !.prior = ui.buildState,
                                                      !.content = c], "intent")]
    /\ UNCHANGED <<store, controllers, aborted>>

\* handleSendMessage from projectToBuild.status = 'generating' to the await of
\* saveProject in triggerBuild (ProjectBuilder.tsx:520-532; cloudService.ts:457-497)
beginBuild(j, s) ==
    LET updated == updatedProject([s.projectRef EXCEPT !.status = "generating"]) IN
    /\ ui' = updated
    /\ store' = updated
    /\ job' = [job EXCEPT ![j] = [s EXCEPT !.pc = "saveProject", !.projectRef = updated]]
    /\ UNCHANGED <<controllers, aborted>>

\* isConnectingCloud of the render handleSendMessage was called in
\* (ProjectBuilder.tsx:57-59)
isConnectingCloud(p) == p.cloud = "CREATING"

\* handleSendMessage once handleUserIntent has returned (ProjectBuilder.tsx:443-518)
routed(j, s) ==
    LET d == decide(s)
        p == s.projectRef
        userMessages == {k \in 1..Len(p.messages) : p.messages[k].role = "user"}
    IN  IF /\ d.isArchitect = "true" /\ d.requiresDatabase = "true"
           /\ ~hasDb(p) /\ ~isConnectingCloud(p)
        THEN LET projectWithMsg == [p EXCEPT !.messages = Append(@, connectMsg)] IN
             /\ ui' = projectWithMsg
             /\ job' = [job EXCEPT ![j] = [s EXCEPT !.pc = "handleConnectCloud",
                                                    !.projectRef = projectWithMsg]]
             /\ UNCHANGED <<store, controllers, aborted>>
        ELSE IF d.isArchitect # "true" /\ s.response \notin {"undefined", ""}
        THEN LET finalProject ==
                     [p EXCEPT !.messages =
                                   Append(@, Message("assistant", Str(s.response, NoText)))]
             IN  /\ ui' = finalProject
                 /\ job' = [job EXCEPT ![j] = [s EXCEPT !.pc = "saveChat",
                                                        !.projectRef = finalProject]]
                 /\ UNCHANGED <<store, controllers, aborted>>
        ELSE IF Cardinality(userMessages) = 1
        THEN /\ job' = [job EXCEPT ![j] = [s EXCEPT !.pc = "generateProjectTitle"]]
             /\ UNCHANGED <<store, ui, controllers, aborted>>
        ELSE beginBuild(j, s)

\* detectUserIntent's call returned (geminiService.ts:576-581)
intentReturns(j, answers) ==
    /\ job[j].pc = "call" /\ job[j].callKind = "intent"
    /\ \E a \in answers :
          LET s == [returned(job[j]) EXCEPT !.isArchitect = detectUserIntent(a)] IN
          job' = [job EXCEPT ![j] = IF s.isArchitect = "true"
                                    THEN callWithRetry(s, "requirements")
                                    ELSE callWithRetry(s, "chat")]
    /\ UNCHANGED <<store, ui, controllers, aborted>>

\* analyzeRequirements' call returned (geminiService.ts:598-599, 578-579)
requirementsReturns(j, outputs) ==
    /\ job[j].pc = "call" /\ job[j].callKind = "requirements"
    /\ \E out \in outputs :
          routed(j, [returned(job[j]) EXCEPT !.aiSaysDbRequired = analyzeRequirements(out),
                                             !.classifier = out])

\* chatQuickly's call returned (geminiService.ts:614, 581-582)
chatReturns(j, outputs) ==
    /\ job[j].pc = "call" /\ job[j].callKind = "chat"
    /\ \E out \in outputs :
          routed(j, [returned(job[j]) EXCEPT !.response = chatQuickly(out)])

\* callWithRetry of handleUserIntent: fn failed and no retries are left
\* (geminiService.ts:148).  analyzeRequirements catches the error (600-602);
\* detectUserIntent and chatQuickly do not, and handleSendMessage rejects.
intentCallThrows(j, outcomes) ==
    /\ job[j].pc = "call"
    /\ job[j].callKind \in {"intent", "requirements", "chat"}
    /\ job[j].envRetries = 0
    /\ \E o \in outcomes :
          /\ withTimeout(o).settled = "rejected"
          /\ LET error == withTimeout(o).error
                 s == [job[j] EXCEPT !.lastError = error, !.thrown = MaxRetriesError(error)]
             IN  IF s.callKind = "requirements"
                 THEN routed(j, [s EXCEPT !.aiSaysDbRequired = "false",
                                          !.classifier = "failed"])
                 ELSE /\ job' = [job EXCEPT ![j] = [s EXCEPT !.pc = "rejected"]]
                      /\ UNCHANGED <<store, ui, controllers, aborted>>

\* generateProjectTitle returned (ProjectBuilder.tsx:516-532)
titleReturns(j) ==
    /\ job[j].pc = "generateProjectTitle"
    /\ beginBuild(j, job[j])

\* generateProjectTitle threw: handleSendMessage rejects (ProjectBuilder.tsx:516)
titleThrows(j) ==
    /\ job[j].pc = "generateProjectTitle"
    /\ job' = [job EXCEPT ![j].pc = "rejected"]
    /\ UNCHANGED <<store, ui, controllers, aborted>>

successMsg == Message("assistant", Str("Rafiei Cloud Connected", NoText))

\* most setTimeout callbacks of the resume effect pending at a time
MaxTimers == 2

\* the backend the project asked for is being provisioned, then is ready: the
\* project row gets the status (rafieiCloudService.provisionProject, called at
\* ProjectBuilder.tsx:374)
provisioning ==
    /\ \E j \in Jobs : job[j].pc = "handleConnectCloud"
    /\ store.cloud \in {"none", "CREATING"}
    /\ store' = [store EXCEPT !.cloud = IF @ = "none" THEN "CREATING" ELSE "ACTIVE"]
    /\ UNCHANGED <<ui, controllers, aborted, job>>

\* the subscription to the project row delivers a change (ProjectBuilder.tsx:175-182)
projectChanged ==
    /\ ui # store
    /\ ui' = store
    /\ UNCHANGED <<store, controllers, aborted, job>>

\* the effect on [project]: the backend is ACTIVE and message j left a pending
\* prompt (ProjectBuilder.tsx:75-96).  Its own setProject makes it run again.
resumeEffect(j) ==
    /\ ui.cloud = "ACTIVE"
    /\ job[j].pc = "handleConnectCloud"
    /\ Len(job[j].timers) < MaxTimers
    /\ LET updated == [ui EXCEPT !.messages = Append(@, successMsg)] IN
       /\ ui' = updated
       /\ store' = updated
       /\ job' = [job EXCEPT ![j].timers = Append(@, updated)]
    /\ UNCHANGED <<controllers, aborted>>

\* a setTimeout callback of the resume effect runs: handleSendMessage(
\* pendingPrompt.content, pendingPrompt.images, updated, true) up to its await
\* of detectUserIntent's call, as job k, and setPendingPrompt(null)
\* (ProjectBuilder.tsx:90-93, 402-443)
resumeTimer(j, k) ==
    /\ job[j].timers # <<>>
    /\ job[k].pc = "idle"
    /\ \A m \in Jobs : m < k => job[m].pc # "idle"
    /\ LET updated == Head(job[j].timers) IN
       /\ ui' = updated
       /\ job' = [job EXCEPT
                    ![j] = [@ EXCEPT !.timers = Tail(@),
                                     !.pc = IF @ = "handleConnectCloud" THEN "resumed" ELSE @],
                    ![k] = callWithRetry([IdleJob EXCEPT !.projectRef = updated,
                                                         !.currentCode = updated.code,
                                                         !.before = updated.code,
                                                         !.floor = Len(updated.messages),
                                                         !.prior = updated.buildState,
                                                         !.content = job[j].content],
                                         "intent")]
    /\ UNCHANGED <<store, controllers, aborted>>

\* saveProject(finalProject) of the chat reply done (ProjectBuilder.tsx:508-510)
chatSaved(j) ==
    /\ job[j].pc = "saveChat"
    /\ store' = job[j].projectRef
    /\ job' = [job EXCEPT ![j].pc = "done"]
    /\ UNCHANGED <<ui, controllers, aborted>>

\* What the oracle may answer: every answer the program tells apart.
\* failing: the calls whose invocations may fail or time out.
Oracle == [planner |-> PlannerOutputs, code |-> CodeOutputs,
           sql |-> SqlOutputs, repair |-> RepairOutputs,
           failing |-> {"plan", "sql", "code", "repair"},
           outcomes |-> {"resolves", "rejects"}]

\* An oracle of few answers, for the runs of more than one build.
StubOracle == [planner |-> {[kind |-> "array", steps |-> <<1, 2>>]},
               code |-> {"script"},
               sql |-> {"sql"},
               repair |-> {"javascript"},
               failing |-> {"code"},
               outcomes |-> {"resolves", "rejects"}]

Build(j, oracle) ==
    \/ handleSendMessage(j)
    \/ triggerBuild(j)
    \/ runBuildOnServer(j)
    \/ invocationFails(j, oracle.failing, oracle.outcomes)
    \/ retryInvocation(j)
    \/ callThrows(j, oracle.failing, oracle.outcomes)
    \/ planReturns(j, oracle.planner)
    \/ afterOnPlanUpdate(j)
    \/ afterOnStepStart(j)
    \/ afterOnStepComplete(j)
    \/ codeReturns(j, oracle.code)
    \/ afterStep(j)
    \/ afterOnErrorCode(j)
    \/ repairReturns(j, oracle.repair)
    \/ afterOnChunkRepair(j)
    \/ sqlReturns(j, oracle.sql)
    \/ executeSqlReturns(j)
    \/ executeSqlThrows(j)
    \/ afterTerminal(j)

\* An oracle of few answers whose every call may fail or outlast the timeout.
RetryOracle == [planner |-> {[kind |-> "array", steps |-> <<1, 2>>]},
                code |-> {"script"},
                sql |-> {"sql"},
                repair |-> {"javascript"},
                failing |-> {"plan", "sql", "code", "repair"},
                outcomes |-> FnOutcomes]

\* one build of the project, which the user may stop
Next ==
    \/ Build(1, Oracle)
    \/ handleStop
    \/ watchdog

Spec == Init /\ [][Next]_vars

\* builds of the project one after the other, a new one while the last may
\* still be running
InitRebuild ==
    /\ store = Project([cloud |-> "ACTIVE", manual |-> FALSE]) /\ ui = store
    /\ controllers = 0
    /\ aborted = [j \in Jobs |-> FALSE]
    /\ job = [j \in Jobs |-> IdleJob]

NextRebuild ==
    \/ \E j \in Jobs : Build(j, StubOracle)
    \/ handleStop
    \/ watchdog

SpecRebuild == InitRebuild /\ [][NextRebuild]_vars

\* one build on an ACTIVE backend, every call of which may fail or time out
NextRetry ==
    \/ Build(1, RetryOracle)
    \/ handleStop
    \/ watchdog

SpecRetry == InitRebuild /\ [][NextRetry]_vars

\* one build on an ACTIVE backend that the user may disconnect at any time
NextDisconnect ==
    \/ Build(1, RetryOracle)
    \/ handleDisconnectCloud
    \/ handleStop
    \/ watchdog

SpecDisconnect == InitRebuild /\ [][NextDisconnect]_vars

\* one message of the user, from handleSendMessage to the chat reply, the
\* backend provisioning or the build it leads to
NextIntent ==
    \/ sendMessage(1, DOMAIN Prompts)
    \/ invocationFails(1, {"intent", "requirements", "chat"}, FnOutcomes)
    \/ retryInvocation(1)
    \/ intentCallThrows(1, FnOutcomes)
    \/ intentReturns(1, IntentAnswers)
    \/ requirementsReturns(1, RequirementsOutputs)
    \/ chatReturns(1, ChatOutputs)
    \/ titleReturns(1)
    \/ titleThrows(1)
    \/ chatSaved(1)
    \/ triggerBuild(1)

SpecIntent == Init /\ [][NextIntent]_vars

\* a message that needs a backend on a project without one: the backend is
\* provisioned and the pending prompt is resumed
NextResume ==
    \/ sendMessage(1, {1, 3})
    \/ provisioning
    \/ projectChanged
    \/ \E j \in Jobs :
          \/ resumeEffect(j)
          \/ \E k \in Jobs : resumeTimer(j, k)
          \/ intentReturns(j, IntentAnswers)
          \/ requirementsReturns(j, RequirementsOutputs)
          \/ chatReturns(j, ChatOutputs)
          \/ titleReturns(j)
          \/ chatSaved(j)
          \/ triggerBuild(j)

SpecResume == Init /\ [][NextResume]_vars

\* ------------------------------------------------------------------ properties
Fired(j, name) == \E k \in 1..Len(job[j].log) : job[j].log[k][1] = name

\* the messages build j has appended to the history
Appended(j) ==
    SubSeq(job[j].projectRef.messages, job[j].floor + 1, Len(job[j].projectRef.messages))

\* job j took a step of its own
Moved(j) == job'[j] # job[j]

\* C1: from one persisted state of a build run to the next, lastCompletedStep
\* never decreases, and it never exceeds plan.length - 1.
C1_LastCompletedStepMonotone ==
    [][/\ store'.buildState.lastCompletedStep >= store.buildState.lastCompletedStep
       /\ store'.buildState.lastCompletedStep <= Len(store'.buildState.plan) - 1]_vars

\* C1 witness: two steps are recorded as completed, the first one after a
\* failure of the oracle.
C1_Witness ==
    /\ store.buildState.lastCompletedStep = 1
    /\ job[1].pc = "onStepComplete"
    /\ \E k \in 1..Len(job[1].log) : job[1].log[k][1] = "onError"

\* C2: when the compiled plan has a step of the database keyword set and the
\* project has neither an ACTIVE managed backend nor a manual connection URL,
\* the build fires no callback but onFinalError with the provisioning-redirect
\* message, which is the only message it appends, and it ends there with
\* status idle.  (A build cancelled while the planner call was in flight
\* exits before the gate, having fired and appended nothing.)
C2_GateHaltsBeforeAnyMessage ==
    \A j \in Jobs :
        (/\ needsDb(job[j].plan)
         /\ job[j].projectRef.cloud # "ACTIVE"
         /\ ~job[j].projectRef.manual)
        => IF job[j].log = <<>>
           THEN aborted[j] /\ job[j].pc = "done" /\ Appended(j) = <<>>
           ELSE /\ job[j].log = <<Event("onFinalError", 1)>>
                /\ Appended(j) = <<Message("assistant", DB_CONNECT_MESSAGE)>>
                /\ job[j].pc \in {"onFinalError", "done"}
                /\ job[j].projectRef.status = "idle"
                /\ job[j].projectRef.buildState.plan = <<>>

\* C2 witness: a plan with a database step and a managed backend that is
\* still CREATING: the build has halted with the redirect message.
C2_Witness ==
    /\ needsDb(job[1].plan)
    /\ job[1].projectRef.cloud = "CREATING"
    /\ job[1].pc = "done"
    /\ ~aborted[1]
    /\ store.messages = <<UserMessage, Message("assistant", DB_CONNECT_MESSAGE)>>

\* C3 (as claimed): whenever a build ends with the backend-required sentinel,
\* onPlanUpdate, onStepStart and onChunkComplete have not fired in it and the
\* persisted plan is still empty.
C3_SentinelBeforePlanPublished ==
    \A j \in Jobs :
        (job[j].log # <<>> /\ Last(job[j].log) = Event("onFinalError", 1))
        => /\ ~Fired(j, "onPlanUpdate")
           /\ ~Fired(j, "onStepStart")
           /\ ~Fired(j, "onChunkComplete")
           /\ job[j].projectRef.buildState.plan = <<>>

\* C4 (as claimed): after the FinalError of a CodeStep whose 3 attempts
\* failed, the artifact in memory and the persisted one equal the artifact as
\* it was after the last completed step.
C4_FailedStepLeavesArtifact ==
    \A j \in Jobs :
        (/\ job[j].log # <<>>
         /\ Last(job[j].log) = Event("onFinalError", 0)
         /\ Last(job[j].projectRef.messages).content.kind = "Error: Failed to execute step")
        => /\ Fields(job[j].currentCode) = Fields(job[j].before)
           /\ Fields(job[j].projectRef.code) = Fields(job[j].before)
           /\ Fields(store.code) = Fields(job[j].before)

\* C5 (as claimed): once the cancellation of a build is signalled, the build
\* never fires onFinalError.
C5_NoFinalErrorAfterCancel ==
    [][\A j \in Jobs :
          (aborted[j] /\ job'[j].log # job[j].log)
          => Last(job'[j].log)[1] # "onFinalError"]_vars

\* C6 (as claimed): once the cancellation of a build is signalled, no step of
\* that build writes to the store.
C6_NoSaveAfterCancel ==
    [][\A j \in Jobs : (aborted[j] /\ Moved(j)) => store' = store]_vars

\* a build has begun once the setTimeout callback of triggerBuild has run
Begun(j) == job[j].pc \notin {"idle", "saveProject", "queued"}

\* C7 (as claimed): once a new build of the project has begun, an older build
\* that was signalled to cancel has exited: it makes no further oracle
\* invocation, fires no further callback and saves nothing.
C7_OldBuildExitedBeforeNew ==
    [][\A j, k \in Jobs :
          (k < j /\ Begun(j) /\ aborted[k])
          => /\ job'[k].log = job[k].log
             /\ job'[k].invocations = job[k].invocations]_vars

\* the persisted project carries a BuildState with steps left to do
Unfinished(p) ==
    /\ p.buildState.attached
    /\ Len(p.buildState.plan) > 0
    /\ p.buildState.lastCompletedStep < Len(p.buildState.plan) - 1

\* C8 (as claimed): in every persisted state, status = generating iff a
\* BuildState with a non-empty plan and steps left to do is attached, but
\* for the states right after Success and right after the gate halt.
C8_GeneratingIffUnfinished ==
    \/ (store.messages # <<>> /\
        Last(store.messages).content \in {Str("Project built successfully!", NoText),
                                          Str("no code changes were needed", NoText),
                                          DB_CONNECT_MESSAGE})
    \/ (store.status = "generating" <=> Unfinished(store))

\* C8 (amended): in every persisted state, status = generating only if a
\* BuildState is attached and lastCompletedStep <= plan.length - 1; the plan
\* may still be empty, and every step may be complete.
C8_GeneratingOnlyWithBuildState ==
    store.status = "generating"
    => /\ store.buildState.attached
       /\ store.buildState.lastCompletedStep <= Len(store.buildState.plan) - 1
       /\ store.buildState.lastCompletedStep >= -1

\* C8 witness: the last step is recorded as completed and the status is still
\* generating.
C8_Witness ==
    /\ store.status = "generating"
    /\ store.buildState.attached
    /\ Len(store.buildState.plan) = 2
    /\ store.buildState.lastCompletedStep = 1

\* the first index a build has passed to onStepStart
FirstStepStarted(j) ==
    LET k == CHOOSE k \in 1..Len(job[j].log) :
                 /\ job[j].log[k][1] = "onStepStart"
                 /\ \A m \in 1..(k - 1) : job[j].log[m][1] # "onStepStart"
    IN  job[j].log[k][2]

\* C9 (as claimed): a build triggered on a project persisted mid-build, with
\* steps 0..lastCompletedStep done, starts at plan index lastCompletedStep + 1.
C9_ResumesAfterLastCompletedStep ==
    \A j \in Jobs :
        (/\ job[j].prior.attached
         /\ Len(job[j].prior.plan) > 0
         /\ job[j].prior.lastCompletedStep < Len(job[j].prior.plan) - 1
         /\ Fired(j, "onStepStart"))
        => FirstStepStarted(j) = job[j].prior.lastCompletedStep + 1

SqlInFlight(j) ==
    \/ job[j].pc = "executeSql"
    \/ job[j].pc \in {"call", "delay"} /\ job[j].callKind = "sql"

SilentExit(j) ==
    aborted[j] /\ job'[j].pc = "done" /\ job'[j].log = job[j].log

\* C10: whatever a SqlStep at plan index i does when its oracle call, the
\* parsing of the answer or the execution of the SQL fails, it is not
\* onFinalError and the status stays generating; after the failure
\* (onError) the build, unless it exits on a cancellation, fires
\* onStepComplete(i) next and then onStepStart(i + 1), or onSuccess after the
\* last step.
C10_SqlFailureContinues ==
    [][\A j \in Jobs :
        /\ (SqlInFlight(j) /\ Moved(j))
           => \/ SilentExit(j)
              \/ /\ job'[j].projectRef.status = "generating"
                 /\ ~(job'[j].log # job[j].log /\ Last(job'[j].log)[1] = "onFinalError")
                 /\ job'[j].pc \in {"call", "delay", "executeSql", "onErrorSql",
                                    "onChunkSql", "onStepComplete"}
        /\ (job[j].pc = "onErrorSql" /\ Moved(j))
           => \/ SilentExit(j)
              \/ /\ job'[j].log = Append(job[j].log, Event("onStepComplete", job[j].i))
                 /\ job'[j].projectRef.buildState.lastCompletedStep = job[j].i
                 /\ job'[j].projectRef.status = "generating"
                 /\ store' = job'[j].projectRef
        /\ (/\ job[j].pc = "onStepComplete"
            /\ job[j].projectRef.buildState.error = "Database migration failed"
            /\ Moved(j))
           => \/ SilentExit(j)
              \/ IF job[j].i + 1 < Len(job[j].plan)
                 THEN job'[j].log = Append(job[j].log, Event("onStepStart", job[j].i + 1))
                 ELSE job'[j].log = Append(job[j].log, Event("onSuccess", 0))]_vars

\* C10 witness: the SqlStep at index 0 failed, was recorded as completed, and
\* step 1 has been started.
C10_Witness ==
    /\ job[1].log = <<Event("onPlanUpdate", 2), Event("onStepStart", 0),
                      Event("onError", 0), Event("onStepComplete", 0),
                      Event("onStepStart", 1)>>
    /\ store.status = "generating"
    /\ store.buildState.lastCompletedStep = 0

\* C11 (as claimed): when a SqlStep fails, the catch of executeSqlStep leaves
\* the message history one entry longer, the new entry describing the
\* database failure.
C11_SqlFailureAppendsWarning ==
    [][\A j \in Jobs :
          (job[j].pc # "onErrorSql" /\ job'[j].pc = "onErrorSql")
          => /\ Len(job'[j].projectRef.messages) = Len(job[j].projectRef.messages) + 1
             /\ Last(job'[j].projectRef.messages).content.kind = "Database migration failed"]_vars

IsPrefix(p, q) == Len(p) <= Len(q) /\ SubSeq(q, 1, Len(p)) = p

\* the callbacks of a one-step build whose CodeStep fails on attempts 1 and 2,
\* is repaired after each, and succeeds on attempt 3
TwoRepairsRun ==
    <<Event("onPlanUpdate", 1), Event("onStepStart", 0),
      Event("onError", 2), Event("onChunkComplete", 0),
      Event("onError", 1), Event("onChunkComplete", 0),
      Event("onChunkComplete", 0)>>

TwoRepairsSuccess ==
    TwoRepairsRun \o <<Event("onStepComplete", 0), Event("onSuccess", 0)>>

\* the '(Auto-fix: ...)' messages build j has appended
AutoFixes(j) ==
    {k \in 1..Len(Appended(j)) : Appended(j)[k].content.kind = "(Auto-fix: )"}

\* C12: a one-step build whose CodeStep fails on attempts 1 and 2, with both
\* repairs succeeding, and succeeds on attempt 3 goes on to onStepComplete(0)
\* and onSuccess and to nothing else; unless it is cancelled it ends there,
\* with status idle, the script and the explanation of the artifact those of
\* attempt 3, in memory and as persisted, and exactly two '(Auto-fix: ...)'
\* messages appended.
C12_ThirdAttemptSucceeds ==
    \A j \in Jobs :
        (Len(job[j].plan) = 1 /\ IsPrefix(TwoRepairsRun, job[j].log))
        => /\ IsPrefix(job[j].log, TwoRepairsSuccess)
           /\ Cardinality(AutoFixes(j)) = 2
           /\ job[j].currentCode.javascript = <<"gen", 0, 3>>
           /\ job[j].currentCode.explanation = <<"gen", 0, 3>>
           /\ (job[j].pc = "done" /\ ~aborted[j]) => job[j].log = TwoRepairsSuccess
           /\ job[j].log = TwoRepairsSuccess
              => /\ job[j].projectRef.status = "idle"
                 /\ job[j].projectRef.code = job[j].currentCode
                 /\ store.code = job[j].currentCode
                 /\ store.status = "idle"

\* C12 witness: the build has ended in Success after two repaired failures.
C12_Witness ==
    /\ job[1].log = TwoRepairsSuccess
    /\ job[1].pc = "done"
    /\ store.code.javascript = <<"gen", 0, 3>>

InvocationErrors == {Rejected, TimedOut}

\* C13: callWithRetry invokes fn at most retries + 1 times (invocations made
\* plus retries left is retries + 1 throughout); an invocation that rejects or
\* outlasts the timeout is followed by a retry while retries are left; a
\* result is returned with no further invocation; and when the last of the
\* retries + 1 invocations fails, the error thrown is a MaxRetriesError whose
\* originalError is the error of that invocation.
C13_CallWithRetry ==
    [][\A j \in Jobs :
        /\ job'[j].pc \in {"call", "delay"}
           => /\ job'[j].invocations >= 1
              /\ job'[j].envRetries >= 0
              /\ job'[j].invocations + job'[j].envRetries
                     = CallRetries[job'[j].callKind] + 1
        /\ (job[j].pc = "delay" /\ Moved(j))
           => /\ job'[j].pc = "call"
              /\ job'[j].callKind = job[j].callKind
              /\ job'[j].invocations = job[j].invocations + 1
        /\ (job[j].pc = "call" /\ Moved(j))
           => \/ /\ job'[j].pc = "delay"
                 /\ job[j].envRetries > 0
                 /\ job'[j].invocations = job[j].invocations
                 /\ job'[j].lastError \in InvocationErrors
                 /\ job'[j].thrown = NoError
              \/ /\ job[j].envRetries = 0
                 /\ job[j].invocations = CallRetries[job[j].callKind] + 1
                 /\ job'[j].lastError \in InvocationErrors
                 /\ job'[j].thrown = MaxRetriesError(job'[j].lastError)
              \/ /\ job'[j].thrown = NoError
                 /\ job'[j].pc # "delay"
                 /\ job'[j].lastError = NoError
                 /\ \/ job'[j].pc = "call" /\ job'[j].invocations = 1
                    \/ job'[j].invocations = job[j].invocations]_vars

\* C13 witness: the planner call was invoked 3 times, the last invocation
\* timed out after two rejections, and the MaxRetriesError wraps the timeout.
C13_Witness ==
    /\ job[1].callKind = "plan"
    /\ job[1].invocations = 3
    /\ job[1].thrown = MaxRetriesError(TimedOut)
    /\ job[1].pc = "onFinalError"

\* C14 (as claimed): no build ends in FinalError because of plan compilation:
\* a FinalError other than the plan gate's is never the first callback of a
\* build, fired before any plan was published.
C14_PlanCompilationNeverFails ==
    \A j \in Jobs :
        Fired(j, "onFinalError")
        => \/ Fired(j, "onPlanUpdate")
           \/ job[j].log = <<Event("onFinalError", 1)>>

\* C15 (as claimed): when the classifier call of analyzeRequirements fails,
\* its output cannot be parsed or the databaseRequired field is missing,
\* analyzeRequirements answers true.
C15_AmbiguousDefaultsToTrue ==
    \A j \in Jobs :
        job[j].classifier \in {"failed", "garbage", "missing"}
        => job[j].aiSaysDbRequired = "true"

\* the build pipeline has run for the message of job j: triggerBuild was
\* called, the status became generating or the artifact changed
PipelineRan(j) ==
    \/ job[j].pc = "saveProject" \/ job[j].callKind = "plan"
    \/ ui.status = "generating" \/ store.status = "generating"
    \/ ui.code # job[j].before \/ store.code # job[j].before

\* the reply of the router is the last message of the conversation
ReplyRecorded(j) ==
    /\ job[j].response \notin {"undefined", ""}
    /\ Last(ui.messages) = Message("assistant", Str(job[j].response, NoText))
    /\ job[j].pc = "done" => store.messages = ui.messages

\* C19 (as claimed): if the router classified the message as not requiring a
\* code change, the build pipeline never runs for it, and once the message is
\* handled a conversational reply is recorded.
C19_ChatNeverBuilds ==
    \A j \in Jobs :
        job[j].isArchitect = "false"
        => /\ ~PipelineRan(j)
           /\ job[j].pc \in {"saveChat", "done"} => ReplyRecorded(j)

\* the message of job j matches no keyword of handleSendMessage's heuristics
NoKeyword(j) ==
    /\ ~test(heuristicArchitectWords, Prompts[job[j].content])
    /\ ~test(dbRegex, Prompts[job[j].content])

\* C19 (amended): if the router classified the message as not requiring a code
\* change and the message matches no architect keyword and no database
\* keyword, the build pipeline never runs for it: job j stays within the chat
\* call and the chat path, and once the chat call has returned the reply is
\* recorded.
C19_ChatWithoutKeywordNeverBuilds ==
    \A j \in Jobs :
        (job[j].isArchitect = "false" /\ NoKeyword(j))
        => /\ ~PipelineRan(j)
           /\ job[j].callKind = "chat"
           /\ job[j].pc \in {"call", "delay", "rejected", "saveChat", "done"}
           /\ job[j].pc \in {"saveChat", "done"} => ReplyRecorded(j)

\* a message without keyword got the fallback reply of chatQuickly, saved
C19_Witness ==
    /\ job[1].isArchitect = "false" /\ NoKeyword(1)
    /\ job[1].pc = "done"
    /\ job[1].response = "I'm listening..."
    /\ store.messages = <<UserMessage, Message("assistant", Str("I'm listening...", NoText))>>

C16_SuccessClearsBuildState ==
    [][\A j \in Jobs :
          /\ (~Fired(j, "onSuccess") /\ Fired(j, "onSuccess")')
             => ~store'.buildState.attached
          /\ (~Fired(j, "onFinalError") /\ Fired(j, "onFinalError")')
             => store'.buildState = job[j].projectRef.buildState]_vars

\* C16 (amended): the project a build persists on terminal Success keeps its
\* BuildState, marked complete (currentStep = plan.length, lastCompletedStep
\* = plan.length - 1, error = null) with status idle; the project it persists
\* on FinalError has the BuildState it had before.
C16_SuccessMarksBuildStateComplete ==
    [][\A j \in Jobs :
          /\ (~Fired(j, "onSuccess") /\ Fired(j, "onSuccess")')
             => /\ store'.status = "idle"
                /\ store'.buildState =
                       [attached |-> TRUE,
                        plan |-> job[j].projectRef.buildState.plan,
                        currentStep |-> Len(job[j].projectRef.buildState.plan),
                        lastCompletedStep |-> Len(job[j].projectRef.buildState.plan) - 1,
                        error |-> "null"]
          /\ (~Fired(j, "onFinalError") /\ Fired(j, "onFinalError")')
             => /\ store'.status = "idle"
                /\ store'.buildState.attached
                /\ store'.buildState = job[j].projectRef.buildState]_vars

\* a build of two steps succeeded after an attempt had failed: the persisted
\* BuildState is complete and its error is cleared
C16_Witness ==
    /\ Fired(1, "onSuccess") /\ Fired(1, "onError")
    /\ store.status = "idle"
    /\ store.buildState.plan = <<1, 2>>
    /\ store.buildState.currentStep = 2
    /\ store.buildState.lastCompletedStep = 1
    /\ store.buildState.error = "null"

\* job j issues an oracle invocation in this step: a call is begun, or the
\* call in flight is retried
Issues(j) ==
    /\ job'[j].pc = "call"
    /\ \/ job[j].pc # "call"
       \/ job'[j].callKind # job[j].callKind
       \/ job'[j].invocations # job[j].invocations

\* C18 (as claimed): once the cancellation signal of a build is set, the build
\* issues no further oracle invocation: no retry of the call in flight, no
\* further attempt of a code step and no repair call.
C18_NoInvocationAfterCancel ==
    [][\A j \in Jobs : aborted[j] => ~Issues(j)]_vars

\* job j begins a call of the given kind in this step
Begins(j, kind) ==
    Issues(j) /\ job'[j].callKind = kind /\ job'[j].invocations = 1

\* C20: a code step makes at most 3 attempts: its first attempt follows
\* onStepStart, and every other attempt follows the one repair made after the
\* failed attempt before it; a repair is made after the 1st and the 2nd
\* failed attempt, unless the build is cancelled, and only then; after the 3rd failed attempt no repair is made and the
\* build fires onFinalError with a message naming plan[i], and the project it
\* saves has currentStep = i and lastCompletedStep = i - 1.
C20_ThreeAttemptsThenFinalError ==
    [][\A j \in Jobs :
          /\ Begins(j, "code")
             => /\ Attempt(job'[j]) \in 1..3
                /\ \/ job[j].pc = "onStepStart" /\ Attempt(job'[j]) = 1
                   \/ /\ \/ job[j].pc = "call" /\ job[j].callKind = "repair"
                         \/ job[j].pc = "onChunkRepair"
                      /\ Attempt(job'[j]) = Attempt(job[j])
                      /\ Attempt(job'[j]) \in 2..3
          /\ Begins(j, "repair")
             => /\ job[j].pc = "onErrorCode"
                /\ job[j].retries \in 1..2
                /\ job'[j].retries = job[j].retries
          /\ (job[j].pc = "onErrorCode" /\ job[j].retries > 0 /\ job'[j].pc # "onErrorCode")
             => Begins(j, "repair") \/ (aborted[j] /\ job'[j].pc = "done")
          /\ (job[j].pc = "call" /\ job[j].callKind = "repair" /\ job'[j].pc # "call")
             => job'[j].pc \in {"delay", "onChunkRepair", "done"}
          /\ (job[j].pc = "onChunkRepair" /\ job'[j].pc # "onChunkRepair")
             => Begins(j, "code") \/ job'[j].pc = "done"
          /\ (job[j].pc = "onErrorCode" /\ job[j].retries = 0 /\ job'[j].pc # "onErrorCode")
             => /\ job'[j].pc = "onFinalError"
                /\ Last(job'[j].log) = Event("onFinalError", 0)
                /\ Last(store'.messages) =
                       Message("assistant",
                               Str("Error: Failed to execute step",
                                   <<"step", job[j].plan[job[j].i + 1], job[j].i>>))
                /\ store'.status = "idle"
                /\ store'.buildState.currentStep = job[j].i
                /\ store'.buildState.lastCompletedStep = job[j].i - 1]_vars

\* the second step of a plan failed three times, with two repairs in between
C20_Witness ==
    /\ job[1].pc = "onFinalError" /\ job[1].i = 1 /\ job[1].retries = 0
    /\ Len(SelectSeq(job[1].log, LAMBDA e : e[1] = "onError")) = 3
    /\ Len(SelectSeq(job[1].log, LAMBDA e : e = Event("onChunkComplete", 1))) = 2
    /\ store.buildState.currentStep = 1
    /\ store.buildState.lastCompletedStep = 0
    /\ Last(store.messages).content.kind = "Error: Failed to execute step"

\* job j runs SQL against the backend in this step (rafieiCloudService.executeSql
\* is called)
ExecutesSql(j) == job[j].pc # "executeSql" /\ job'[j].pc = "executeSql"

\* C21 (as claimed): a SQL step runs SQL against the backend only if the
\* backend connection of the project is ACTIVE at that moment, in the project
\* record and in the project the user sees.
C21_SqlOnlyWhileConnected ==
    [][\A j \in Jobs :
          ExecutesSql(j) => store.cloud = "ACTIVE" /\ ui.cloud = "ACTIVE"]_vars

\* C22 (as claimed): when the oracle call of a step returns or throws after
\* the build was cancelled, the job runs no SQL against the backend and
\* merges nothing into the artifact.
C22_CancelledCallHasNoEffect ==
    [][\A j \in Jobs :
          (/\ aborted[j]
           /\ job[j].pc = "call" /\ job[j].callKind \in {"sql", "code", "repair"}
           /\ job'[j].pc \notin {"call", "delay"})
          => /\ ~ExecutesSql(j)
             /\ Fields(job'[j].currentCode) = Fields(job[j].currentCode)
             /\ Fields(job'[j].projectRef.code) = Fields(job[j].projectRef.code)]_vars

\* C23 (as claimed): the Call Envelope of a repair is one-shot: it invokes the
\* oracle once and never retries.
C23_RepairIsOneShot ==
    \A j \in Jobs : job[j].callKind = "repair" => job[j].invocations <= 1

\* the repair call of job j ends in this step: it returned, or it threw
RepairEnds(j) ==
    /\ job[j].pc = "call" /\ job[j].callKind = "repair"
    /\ job'[j].pc # "delay"
    /\ job'[j].pc # "call" \/ job'[j].callKind # "repair"

\* C24: a successful repair changes the javascript field of the artifact and
\* no other, and appends one "(Auto-fix: ...)" message; a repair that failed,
\* returned no script or was cancelled changes neither the artifact nor the
\* history, fires no callback, and the step loop goes on to its next attempt
\* (or the cancelled build exits).
C24_RepairChangesScriptOnly ==
    [][\A j \in Jobs :
          RepairEnds(j)
          => LET old == job[j].currentCode
                 new == job'[j].currentCode
                 fix == <<"fix", job[j].i, Attempt(job[j]) - 1>>
             IN  IF job'[j].pc = "onChunkRepair"
                 THEN /\ new.javascript = fix /\ new.javascript # old.javascript
                      /\ new.html = old.html /\ new.css = old.css
                      /\ new.explanation = old.explanation
                      /\ Fields(job'[j].projectRef.code) = Fields(new)
                      /\ job'[j].projectRef.messages =
                             Append(job[j].projectRef.messages,
                                    Message("assistant", Str("(Auto-fix: )", fix)))
                      /\ store' = job'[j].projectRef
                 ELSE /\ new = old
                      /\ job'[j].projectRef = job[j].projectRef
                      /\ job'[j].log = job[j].log
                      /\ UNCHANGED <<store, ui>>
                      /\ Begins(j, "code") \/ (aborted[j] /\ job'[j].pc = "done")]_vars

\* a repair of the second step, after the first step replaced every field
C24_Witness ==
    /\ job[1].pc = "onChunkRepair" /\ job[1].i = 1
    /\ job[1].currentCode.javascript = <<"fix", 1, 1>>
    /\ job[1].currentCode.html = <<"gen", 0, 1>>
    /\ job[1].currentCode.explanation = <<"gen", 0, 1>>
    /\ Last(store.messages).content = Str("(Auto-fix: )", <<"fix", 1, 1>>)

\* job j is within a SQL step: from its oracle call to the save of its callback
InSqlStep(j) ==
    \/ job[j].pc \in {"call", "delay"} /\ job[j].callKind = "sql"
    \/ job[j].pc \in {"executeSql", "onChunkSql", "onErrorSql"}

\* the published plan of job j has SQL steps only, and the backend is ACTIVE
SqlOnlyPlan(j) ==
    /\ Fired(j, "onPlanUpdate")
    /\ \A k \in 1..Len(job[j].plan) : stepIsSql[job[j].plan[k]]
    /\ job[j].projectRef.cloud = "ACTIVE"

\* the artifact is the one the build started with, no FinalError was fired,
\* and a build that exited without being cancelled has fired onSuccess
SqlOnlyOutcome(j) ==
    /\ Fields(job[j].currentCode) = Fields(OrigCode)
    /\ Fields(job[j].projectRef.code) = Fields(OrigCode)
    /\ Fields(store.code) = Fields(OrigCode)
    /\ ~Fired(j, "onFinalError")
    /\ (job[j].pc = "done" /\ ~aborted[j]) => Fired(j, "onSuccess")

\* C25: no step of a SQL step changes the artifact, whether the step succeeds
\* or fails; a build whose plan has SQL steps only, on an ACTIVE backend, ends
\* in Success with the artifact it started with, also when SQL execution throws.
C25_SqlStepLeavesArtifact ==
    [][\A j \in Jobs :
          /\ InSqlStep(j)
             => /\ Fields(job'[j].currentCode) = Fields(job[j].currentCode)
                /\ Fields(job'[j].projectRef.code) = Fields(job[j].projectRef.code)
                /\ Fields(store'.code) = Fields(store.code)
          /\ SqlOnlyPlan(j)' => SqlOnlyOutcome(j)']_vars

\* plan ["sql: add index"]: executeSql threw, and the build succeeded
C25_Witness ==
    /\ job[1].pc = "done"
    /\ job[1].log = <<Event("onPlanUpdate", 1), Event("onStepStart", 0),
                      Event("executeSql", 0), Event("onError", 0),
                      Event("onStepComplete", 0), Event("onSuccess", 0)>>
    /\ store.status = "idle"
    /\ Fields(store.code) = Fields(OrigCode)

\* the plan and step callbacks job j has fired, in order
StepEvents(j) ==
    SelectSeq(job[j].log,
              LAMBDA e : e[1] \in {"onPlanUpdate", "onStepStart", "onStepComplete",
                                   "onSuccess"})

\* the callbacks of a build of n steps that succeeds
RECURSIVE StepsInOrder(_)
StepsInOrder(n) ==
    IF n = 0 THEN <<>>
    ELSE StepsInOrder(n - 1) \o <<Event("onStepStart", n - 1), Event("onStepComplete", n - 1)>>

InOrder(n) == <<Event("onPlanUpdate", n)>> \o StepsInOrder(n) \o <<Event("onSuccess", 0)>>

\* C26: the plan and step callbacks of a build with a plan of n >= 1 steps are
\* a prefix of onPlanUpdate, onStepStart(0), onStepComplete(0), ...,
\* onStepStart(n-1), onStepComplete(n-1), onSuccess: no step starts before the
\* one before it completed, none is skipped or repeated, and onSuccess comes
\* last.  (With an empty plan nothing is published and onSuccess is the only
\* callback.)
C26_StepsInPlanOrder ==
    \A j \in Jobs :
        IF Len(job[j].plan) >= 1
        THEN IsPrefix(StepEvents(j), InOrder(Len(job[j].plan)))
        ELSE StepEvents(j) \in {<<>>, <<Event("onSuccess", 0)>>}

\* a build of two steps succeeded though attempts of a step had failed
C26_Witness ==
    /\ job[1].pc = "done"
    /\ StepEvents(1) = InOrder(2)
    /\ Fired(1, "onError") /\ Fired(1, "onChunkComplete")
    /\ Len(job[1].log) > Len(InOrder(2)) + 2

\* C27: when the planner's answer cannot be parsed as JSON, the plan of the
\* build is exactly ["Analyze request", "Implement changes"]; unless the build
\* was cancelled meanwhile, that plan is published first, both steps are run
\* as code steps (no SQL call, no SQL executed), and a FinalError can only be
\* that of a code step which failed all its attempts.
C27_UnparsablePlanFallsBack ==
    \A j \in Jobs :
        job[j].planAnswer = "garbage"
        => /\ job[j].plan = FallbackPlan
           /\ StepText[job[j].plan[1]] =
                  <<"A","n","a","l","y","z","e"," ","r","e","q","u","e","s","t">>
           /\ StepText[job[j].plan[2]] =
                  <<"I","m","p","l","e","m","e","n","t"," ","c","h","a","n","g","e","s">>
           /\ \/ job[j].log = <<>> /\ job[j].pc = "done" /\ aborted[j]
              \/ job[j].log # <<>> /\ job[j].log[1] = Event("onPlanUpdate", 2)
           /\ job[j].callKind # "sql" /\ ~Fired(j, "executeSql")
           /\ \A k \in 1..Len(job[j].log) :
                 job[j].log[k][1] = "onFinalError"
                 => /\ job[j].log[k] = Event("onFinalError", 0)
                    /\ job[j].retries = 0
                    /\ Last(job[j].projectRef.messages).content.kind
                           = "Error: Failed to execute step"

\* the fallback plan was run to the end
C27_Witness ==
    /\ job[1].planAnswer = "garbage"
    /\ job[1].pc = "done"
    /\ StepEvents(1) = <<Event("onPlanUpdate", 2),
                         Event("onStepStart", 0), Event("onStepComplete", 0),
                         Event("onStepStart", 1), Event("onStepComplete", 1),
                         Event("onSuccess", 0)>>
    /\ store.buildState.plan = FallbackPlan

\* job j fires a callback in this step, and so persists its project
Persists(j) ==
    Len(job'[j].log) > Len(job[j].log) /\ IsCallback(Last(job'[j].log))

\* C28: in every project a build persists once its plan is published,
\* -1 <= lastCompletedStep <= currentStep <= lastCompletedStep + 1 and
\* currentStep <= plan.length; currentStep = plan.length only in the project
\* persisted by onSuccess.
C28_StepIndicesInRange ==
    [][\A j \in Jobs :
          (Persists(j) /\ Fired(j, "onPlanUpdate")')
          => LET b == store'.buildState IN
             /\ b.attached
             /\ -1 <= b.lastCompletedStep
             /\ b.lastCompletedStep <= b.currentStep
             /\ b.currentStep <= b.lastCompletedStep + 1
             /\ b.currentStep <= Len(b.plan)
             /\ b.currentStep = Len(b.plan) => Last(job'[j].log)[1] = "onSuccess"]_vars

\* the project persisted by onStepComplete of the last step of two
C28_Witness ==
    /\ job[1].pc = "onStepComplete"
    /\ Last(job[1].log) = Event("onStepComplete", 1)
    /\ store = job[1].projectRef
    /\ Len(store.buildState.plan) = 2
    /\ store.buildState.currentStep = 1
    /\ store.buildState.lastCompletedStep = 1

\* C29: the registry holds the controller of one build at most, a build that
\* was triggered, has not finished and was not stopped.  It changes only when
\* a build is triggered (the controller it held is aborted and the new one takes
\* its place), when the build is stopped (its controller is aborted and
\* removed) or when the build whose controller it holds finishes: a build that
\* finishes never removes or aborts the controller of another build.
C29_RegistryHoldsLatestBuild ==
    [][/\ controllers' \in Jobs
          => /\ job'[controllers'].pc \notin {"idle", "saveProject", "done"}
             /\ ~aborted'[controllers']
       /\ \A j \in Jobs :
             /\ (job[j].pc = "saveProject" /\ job'[j].pc = "queued")
                => /\ controllers' = j
                   /\ controllers \in Jobs \ {j} => aborted'[controllers]
             /\ (job[j].pc # "done" /\ job'[j].pc = "done")
                => /\ controllers' = IF controllers = j THEN 0 ELSE controllers
                   /\ aborted' = aborted
       /\ controllers' # controllers
          => \/ controllers' \in Jobs /\ job[controllers'].pc = "saveProject"
             \/ /\ controllers' = 0
                /\ \/ job'[controllers].pc = "done" /\ job[controllers].pc # "done"
                   \/ aborted'[controllers] /\ job' = job]_vars

\* the first build finished after the second was triggered: the controller of
\* the second is still in the registry, not aborted
C29_Witness ==
    /\ job[1].pc = "done" /\ aborted[1]
    /\ controllers = 2 /\ ~aborted[2]
    /\ job[2].pc = "call"

\* the 'Rafiei Cloud Connected' messages of a project
Connected(p) == {k \in 1..Len(p.messages) : p.messages[k] = successMsg}

\* C30 (as claimed): the pending prompt is resumed once: one 'Rafiei Cloud
\* Connected' message at most is appended to the project, and one resuming
\* call of handleSendMessage at most is scheduled for it.
C30_ResumedOnce ==
    /\ Cardinality(Connected(ui)) <= 1
    /\ Cardinality(Connected(store)) <= 1
    /\ \A j \in Jobs : Len(job[j].timers) <= 1

====
